---------------------------- MODULE Spec2Model ----------------------------
(***************************************************************************)
(* Model of ovms_grpc_yolox.py: the benchmarking client's driver main(),   *)
(* the per-item pipelines infer_image / infer_camera and the               *)
(* PerformanceLogger with its sampler thread and GPU-monitor subprocess.   *)
(*                                                                         *)
(* Scores and thresholds are scaled by 100 (0.3 -> 30, 0.45 -> 45).        *)
(* The helpers of package yoloa (preprocess, multiclass_nms, vis,          *)
(* convert_log_to_csv) are not part of the modelled file; they are         *)
(* modelled from their documented contract.                                *)
(***************************************************************************)
EXTENDS Integers, Sequences, FiniteSets, TLC

\* ------------------------------------------------------------------ bounds
\* Longest image list os.listdir may yield.
MaxItems == 3
\* Lines the GPU-monitor subprocess emits during one run.
MaxLines == 3
\* Frames the camera loop captures without a cancellation before the model
\* stops following it.
MaxFrames == 3

\* ------------------------------------------------------- program constants
NMS_THR == 45
SCORE_THR == 30
VIS_CONF == 30
CAM_DECLARED_SIDE == 416
KEY_Q == 113
KEY_ESC == 27
KEY_MASK == 256

\* Python's None, and a value that is present.
None == << >>
Some(x) == <<x>>
Get(o) == o[1]

Range(s) == {s[i] : i \in DOMAIN s}

\* ------------------------------------------------------------ input domains
\* --input_shape "H,W" values tried.
Shapes == {<<416, 416>>, <<640, 640>>}
DataTypes == {"FP16", "FP32"}
Modes == {"img", "cam"}
\* Values cv2.waitKey(1) may return: -1 (no key), Esc, 'Q', 'q'.
KeyCodes == {-1, 27, 81, 113}
\* (prep, infer, postp) durations in ms a call of infer_image may measure.
Timings == {<<1, 5, 2>>, <<2, 7, 1>>}

\* The decoded candidates (boxes_xyxy, scores over two classes) the served
\* model yields for a picture.
Candidates(scene) ==
    CASE scene = "faint" -> << [box |-> <<0, 0, 10, 10>>, scores |-> <<20, 10>>] >>
      [] scene = "one"   -> << [box |-> <<0, 0, 10, 10>>, scores |-> <<60, 10>>] >>
      [] scene = "pair"  -> << [box |-> <<0, 0, 10, 10>>, scores |-> <<60, 10>>],
                               [box |-> <<1, 0, 11, 10>>, scores |-> <<50, 40>>] >>
      [] OTHER           -> << >>

Scenes == {"faint", "one", "pair"}

\* Entries of --image_dir: name, lower-cased suffix, whether cv2.imread can
\* decode the file, and the picture it holds.
DirEntries == {
    [name |-> "a.jpg",     suffix |-> "jpg",  readable |-> TRUE,  scene |-> "faint"],
    [name |-> "b.png",     suffix |-> "png",  readable |-> TRUE,  scene |-> "one"],
    [name |-> "c.jpeg",    suffix |-> "jpeg", readable |-> TRUE,  scene |-> "pair"],
    [name |-> "d.jpg",     suffix |-> "jpg",  readable |-> FALSE, scene |-> "faint"],
    [name |-> "notes.txt", suffix |-> "txt",  readable |-> TRUE,  scene |-> "faint"] }

\* --------------------------------------------------------------- variables
VARIABLES
    mode, input_shape, data_type,      \* parsed arguments
    live, ready, model_ready,          \* what the server answers to the health queries
    pc,                                \* position of the main thread in main()
    image_files, idx,                  \* the enumerated list, items completed
    outputs,                           \* files written by cv2.imwrite: <<name, image>>
    requests,                          \* number of client.infer calls made
    infer_input,                       \* the last InferInput built, with the tensor offered to it
    stdout,                            \* progress lines printed by PerformanceLogger.log
    running, proc, time_records,       \* PerformanceLogger fields (thread is spc # "idle")
    temp_exists, temp_content,         \* the temporary GPU log on disk
    gpu_log, time_log,                 \* the two CSV files, None until written
    reported,                          \* "<temp> not exists" was printed
    spc, handle, output, written,      \* sampler thread: position, log_file, line read, lines written
    pipe, emitted,                     \* subprocess stdout pipe and lines emitted so far
    frame, result, shown, frames, key, \* camera mode: captured frame, infer_camera's output, displayed image, count, last poll
    acc                                \* which thread read / wrote / deleted which logger resource

configVars == <<mode, input_shape, data_type, live, ready, model_ready>>
mainVars == <<pc, image_files, idx, outputs, requests, infer_input, stdout>>
loggerVars == <<running, proc, time_records, temp_exists, temp_content, gpu_log, time_log, reported>>
samplerVars == <<spc, handle, output, written, pipe, emitted>>
cameraVars == <<frame, result, shown, frames, key>>
vars == <<configVars, mainVars, loggerVars, samplerVars, cameraVars, acc>>

Resources == {"running", "proc", "thread", "time_records", "temp_file"}
Threads == {"main", "sampler"}

\* acc after thread t made the accesses in S (pairs <<resource, kind>>).
Touch(a, t, S) == [f \in Resources |-> a[f] \cup {<<t, e[2]>> : e \in {x \in S : x[1] = f}}]


\* ------------------------------------------------------------ pure helpers
Max(a, b) == IF a >= b THEN a ELSE b
Min(a, b) == IF a <= b THEN a ELSE b

\* Injective sequences over S of length at most n: the orders os.listdir may
\* return for a directory holding some of the entries of S.
RECURSIVE InjSeqs(_, _)
InjSeqs(S, n) ==
    IF n = 0 THEN {<< >>}
    ELSE LET shorter == InjSeqs(S, n - 1)
         IN shorter \cup UNION {{Append(q, e) : e \in S \ Range(q)} :
                                   q \in {x \in shorter : Len(x) = n - 1}}

\* f.lower().endswith(("png", "jpg", "jpeg"))
IsImageFile(e) == e.suffix \in {"png", "jpg", "jpeg"}

\* The three health queries joined by short-circuit "and".
ServerReady_SkipsModel(l, r, m) == l /\ r
ServerReady(l, r, m) == l /\ r /\ m

\* cv2.imread: the decoded picture, or None for a file it cannot decode.
Imread(e) == IF e.readable THEN Some([scene |-> e.scene, drawn |-> {}]) ELSE None
\* preprocess(None, ...) raises: there is no array to resize.
PreprocessRaises(img) == img = None

\* {"FP16": np.float16, "FP32": np.float32}[data_type]
NumpyDType(dt) == IF dt = "FP16" THEN "float16" ELSE "float32"
\* tritonclient's np_to_triton_dtype, used by set_data_from_numpy.
TritonDType(np) == IF np = "float16" THEN "FP16" ELSE IF np = "float32" THEN "FP32" ELSE "?"

\* preprocess(img, input_shape): a channels-first tensor at the model's resolution.
PreprocessShape(shape) == <<3, shape[1], shape[2]>>
\* img[None, :, :, :]
AddBatchAxis(s) == <<1>> \o s

\* grpcclient.InferInput("images", img.shape, datatype=data_type)
ImageInferInput(tensor_shape, dt, np) ==
    [shape |-> tensor_shape, datatype |-> dt, tensor_shape |-> tensor_shape, tensor_dtype |-> np]
\* grpcclient.InferInput("images", [1, 3, 416, 416], datatype=data_type)
CameraInferInput(tensor_shape, dt, np) ==
    [shape |-> <<1, 3, CAM_DECLARED_SIDE, CAM_DECLARED_SIDE>>, datatype |-> dt,
     tensor_shape |-> tensor_shape, tensor_dtype |-> np]
\* set_data_from_numpy raises unless the array has the declared shape and type.
SetDataAccepts(inp) ==
    inp.shape = inp.tensor_shape /\ TritonDType(inp.tensor_dtype) = inp.datatype

\* ---- multiclass NMS: per class, keep scores at or above the threshold, then
\* ---- greedy suppression in descending score order (ties by index).
Area(b) == (b[3] - b[1]) * (b[4] - b[2])
Inter(a, b) ==
    LET w == Min(a[3], b[3]) - Max(a[1], b[1])
        h == Min(a[4], b[4]) - Max(a[2], b[2])
    IN IF w > 0 /\ h > 0 THEN w * h ELSE 0
IoUExceeds(a, b, thr) == Inter(a, b) * 100 > thr * (Area(a) + Area(b) - Inter(a, b))

RECURSIVE SortDesc(_, _, _)
SortDesc(S, cands, c) ==
    IF S = {} THEN << >>
    ELSE LET best == CHOOSE i \in S : \A j \in S :
                        \/ cands[i].scores[c] > cands[j].scores[c]
                        \/ cands[i].scores[c] = cands[j].scores[c] /\ i <= j
         IN <<best>> \o SortDesc(S \ {best}, cands, c)

RECURSIVE Greedy(_, _, _)
Greedy(order, cands, thr) ==
    IF order = << >> THEN << >>
    ELSE LET k == Head(order)
             keepable(j) == ~IoUExceeds(cands[k].box, cands[j].box, thr)
         IN <<k>> \o Greedy(SelectSeq(Tail(order), keepable), cands, thr)

ClassDets(cands, c, nms_thr, score_thr) ==
    LET valid == {i \in DOMAIN cands : cands[i].scores[c] >= score_thr}
        keep == Greedy(SortDesc(valid, cands, c), cands, nms_thr)
    IN [k \in 1..Len(keep) |->
          [box |-> cands[keep[k]].box, score |-> cands[keep[k]].scores[c], cls |-> c - 1]]

MulticlassNms(cands, nms_thr, score_thr) ==
    LET all == ClassDets(cands, 1, nms_thr, score_thr) \o ClassDets(cands, 2, nms_thr, score_thr)
    IN IF all = << >> THEN None ELSE Some(all)

\* vis(...): draws every detection whose score reaches conf.
Vis(img, dets, conf) ==
    [img EXCEPT !.drawn = @ \cup {d \in Range(dets) : d.score >= conf}]

\* multiclass_nms(boxes_xyxy, scores, nms_thr=0.45, score_thr=0.3)
Detect(scene) == MulticlassNms(Candidates(scene), NMS_THR, SCORE_THR)

\* infer_image: the image handed to cv2.imwrite.
ImageResult_WritesTensor(origin, dets) ==
    IF dets # None THEN Vis(origin, Get(dets), VIS_CONF) ELSE [origin EXCEPT !.scene = "letterboxed"]
ImageResult(origin, dets) ==
    IF dets # None THEN Vis(origin, Get(dets), VIS_CONF) ELSE origin

\* infer_camera: output = copy.copy(input), replaced by vis(...) when dets is not None.
CameraResult(input, dets) ==
    IF dets # None THEN Vis(input, Get(dets), VIS_CONF) ELSE input

\* main's for loop does not catch what infer_image raises.
AfterItem_Swallows(raised) == "loop"
AfterItem(raised) == IF raised THEN "crashed" ELSE "loop"

\* print(f"Avg ...: {total / len(image_files)}"): ZeroDivisionError on an empty list.
AfterAverages(n) == IF n = 0 THEN "crashed" ELSE "stop_flag"

\* try: os.remove(...) except FileNotFoundError: print(...)
AfterRemove_NoExcept(exists) == IF exists THEN "stop_write" ELSE "crashed"
AfterRemove(exists) == "stop_write"

\* convert_log_to_csv: one row per raw line.
ConvertLog(lines) == [i \in 1..Len(lines) |-> <<"sample", lines[i]>>]

Header == <<"Preprocessing_Time(ms)", "Inference_Time(ms)", "Postprocessing_Time(ms)">>
\* writer.writerow(header); writer.writerows(self.time_records)
TimeLogRows_NoHeader(records) == records
TimeLogRows(records) == <<Header>> \o records

\* self.time_records.append([prep_time, infer_time, postp_time])
LogRecords(records, t) == Append(records, t)
\* the progress line: [image_index / total_length] and the three durations
LogLine(image_index, total_length, t) == <<image_index, total_length>> \o t

\* cv2.waitKey(1) & 0xFF in [ord("q"), 27]
Cancels(k) == (k % KEY_MASK) \in {KEY_Q, KEY_ESC}

\* -------------------------------------------------------------------- Init
\* Everything main() and PerformanceLogger.__init__ set up before the first call.
Fresh ==
    /\ image_files = << >> /\ idx = 0 /\ outputs = << >>
    /\ requests = 0 /\ infer_input = None /\ stdout = << >>
    /\ running = FALSE /\ proc = None /\ time_records = << >>
    /\ temp_exists = FALSE /\ temp_content = << >>
    /\ gpu_log = None /\ time_log = None /\ reported = FALSE
    /\ spc = "idle" /\ handle = "none" /\ output = 0 /\ written = << >>
    /\ pipe = << >> /\ emitted = 0
    /\ frame = None /\ result = None /\ shown = None /\ frames = 0 /\ key = -1
    /\ acc = [f \in Resources |-> {}]

Init ==
    /\ mode \in Modes
    /\ input_shape \in Shapes
    /\ data_type \in DataTypes
    /\ live \in BOOLEAN /\ ready \in BOOLEAN /\ model_ready \in BOOLEAN
    /\ pc = "start"
    /\ Fresh

\* ------------------------------------------------------------ main thread
\* if not (is_server_live() and is_server_ready() and is_model_ready(model)): return
ServerCheck ==
    /\ pc = "start"
    /\ pc' = IF ServerReady(live, ready, model_ready) THEN "ready" ELSE "notready"
    /\ UNCHANGED <<configVars, image_files, idx, outputs, requests, infer_input, stdout,
                   loggerVars, samplerVars, cameraVars, acc>>

\* mkdir(output_path); image_files = [f for f in os.listdir(image_dir) if ...]
ListImages ==
    /\ pc = "ready" /\ mode = "img"
    /\ \E listing \in InjSeqs(DirEntries, MaxItems) :
          image_files' = SelectSeq(listing, IsImageFile)
    /\ pc' = "listed"
    /\ UNCHANGED <<configVars, idx, outputs, requests, infer_input, stdout,
                   loggerVars, samplerVars, cameraVars, acc>>

\* start_logging(): running = True; the sampler thread is created and started.
StartLogging ==
    /\ pc = "listed"
    /\ running' = TRUE
    /\ spc' = "popen"
    /\ pc' = "loop"
    /\ acc' = Touch(acc, "main", {<<"running", "w">>, <<"thread", "w">>})
    /\ UNCHANGED <<configVars, image_files, idx, outputs, requests, infer_input, stdout,
                   proc, time_records, temp_exists, temp_content, gpu_log, time_log, reported,
                   handle, output, written, pipe, emitted, cameraVars>>

\* One iteration of the for loop: infer_image(...) and then logger.log(...).
\* Nothing between cv2.imwrite and the append of the record can raise, so the
\* iteration either stops before writing anything or completes both.
ProcessItem ==
    /\ pc = "loop" /\ idx < Len(image_files)
    /\ LET e == image_files[idx + 1]
           origin == Imread(e)
           tensor == AddBatchAxis(PreprocessShape(input_shape))
           inp == ImageInferInput(tensor, data_type, NumpyDType(data_type))
       IN IF PreprocessRaises(origin)
          THEN /\ pc' = AfterItem(TRUE)
               /\ idx' = IF AfterItem(TRUE) = "loop" THEN idx + 1 ELSE idx
               /\ UNCHANGED <<outputs, requests, infer_input, stdout, time_records, acc>>
          ELSE IF ~SetDataAccepts(inp)
          THEN /\ pc' = AfterItem(TRUE)
               /\ idx' = IF AfterItem(TRUE) = "loop" THEN idx + 1 ELSE idx
               /\ infer_input' = Some(inp)
               /\ UNCHANGED <<outputs, requests, stdout, time_records, acc>>
          ELSE \E t \in Timings :
               /\ infer_input' = Some(inp)
               /\ requests' = requests + 1
               /\ outputs' = Append(outputs, <<e.name, ImageResult(Get(origin), Detect(e.scene))>>)
               /\ time_records' = LogRecords(time_records, t)
               /\ stdout' = Append(stdout, LogLine(idx + 1, Len(image_files), t))
               /\ idx' = idx + 1
               /\ pc' = AfterItem(FALSE)
               /\ acc' = Touch(acc, "main", {<<"time_records", "w">>})
    /\ UNCHANGED <<configVars, image_files, running, proc, temp_exists, temp_content,
                   gpu_log, time_log, reported, samplerVars, cameraVars>>

\* The three averages printed after the loop divide by len(image_files).
Averages ==
    /\ pc = "loop" /\ idx = Len(image_files)
    /\ pc' = AfterAverages(Len(image_files))
    /\ UNCHANGED <<configVars, image_files, idx, outputs, requests, infer_input, stdout,
                   loggerVars, samplerVars, cameraVars, acc>>

\* stop_logging(), statement by statement: the sampler runs between them.
StopSetFlag ==
    /\ pc = "stop_flag"
    /\ running' = FALSE
    /\ pc' = "stop_term"
    /\ acc' = Touch(acc, "main", {<<"running", "w">>})
    /\ UNCHANGED <<configVars, image_files, idx, outputs, requests, infer_input, stdout,
                   proc, time_records, temp_exists, temp_content, gpu_log, time_log, reported,
                   samplerVars, cameraVars>>

\* if self.proc: self.proc.terminate()
StopTerminate ==
    /\ pc = "stop_term"
    /\ proc' = IF proc # None THEN Some("terminated") ELSE proc
    /\ pc' = "stop_convert"
    /\ acc' = Touch(acc, "main", {<<"proc", "r">>})
    /\ UNCHANGED <<configVars, image_files, idx, outputs, requests, infer_input, stdout,
                   running, time_records, temp_exists, temp_content, gpu_log, time_log, reported,
                   samplerVars, cameraVars>>

\* convert_log_to_csv(self.temp_gpu_log, self.gpu_log); an absent raw log is
\* tolerated and yields no table.
StopConvert ==
    /\ pc = "stop_convert"
    /\ gpu_log' = IF temp_exists THEN Some(ConvertLog(temp_content)) ELSE gpu_log
    /\ pc' = "stop_remove"
    /\ acc' = Touch(acc, "main", {<<"temp_file", "r">>})
    /\ UNCHANGED <<configVars, image_files, idx, outputs, requests, infer_input, stdout,
                   running, proc, time_records, temp_exists, temp_content, time_log, reported,
                   samplerVars, cameraVars>>

\* try: os.remove(self.temp_gpu_log) except FileNotFoundError: print("... not exists")
StopRemove ==
    /\ pc = "stop_remove"
    /\ temp_exists' = FALSE
    /\ temp_content' = << >>
    /\ handle' = IF handle = "linked" THEN "unlinked" ELSE handle
    /\ reported' = (reported \/ (~temp_exists /\ AfterRemove(temp_exists) = "stop_write"))
    /\ pc' = AfterRemove(temp_exists)
    /\ acc' = Touch(acc, "main", {<<"temp_file", "d">>})
    /\ UNCHANGED <<configVars, image_files, idx, outputs, requests, infer_input, stdout,
                   running, proc, time_records, gpu_log, time_log,
                   spc, output, written, pipe, emitted, cameraVars>>

\* with open(self.time_log, "w") ...: header row, then the records
StopWriteTimeLog ==
    /\ pc = "stop_write"
    /\ time_log' = Some(TimeLogRows(time_records))
    /\ pc' = "done"
    /\ acc' = Touch(acc, "main", {<<"time_records", "r">>})
    /\ UNCHANGED <<configVars, image_files, idx, outputs, requests, infer_input, stdout,
                   running, proc, time_records, temp_exists, temp_content, gpu_log, reported,
                   samplerVars, cameraVars>>

\* ------------------------------------------------ sampler thread (_log_metrics)
\* threading.Thread(target=self._log_metrics, daemon=True): the thread runs
\* only while main() does; it is killed when the interpreter exits.
Alive == pc \notin {"done", "crashed"}

\* self.proc = subprocess.Popen(["sudo", "intel_gpu_top", "-s", "100"], ...)
SamplerPopen ==
    /\ Alive /\ spc = "popen"
    /\ proc' = Some("running")
    /\ spc' = "open"
    /\ acc' = Touch(acc, "sampler", {<<"proc", "w">>})
    /\ UNCHANGED <<configVars, mainVars, running, time_records, temp_exists, temp_content,
                   gpu_log, time_log, reported, handle, output, written, pipe, emitted,
                   cameraVars>>

\* log_file = open(self.temp_gpu_log, "w"): creates or truncates the file.
SamplerOpen ==
    /\ Alive /\ spc = "open"
    /\ temp_exists' = TRUE
    /\ temp_content' = << >>
    /\ handle' = "linked"
    /\ spc' = "check"
    /\ acc' = Touch(acc, "sampler", {<<"temp_file", "w">>})
    /\ UNCHANGED <<configVars, mainVars, running, proc, time_records, gpu_log, time_log,
                   reported, output, written, pipe, emitted, cameraVars>>

\* while self.running:
SamplerCheck ==
    /\ Alive /\ spc = "check"
    /\ spc' = IF running THEN "read" ELSE "close"
    /\ acc' = Touch(acc, "sampler", {<<"running", "r">>})
    /\ UNCHANGED <<configVars, mainVars, loggerVars, handle, output, written, pipe, emitted,
                   cameraVars>>

\* output = self.proc.stdout.readline(): the next buffered line; "" (here 0)
\* at end of file, once the subprocess is gone; blocks otherwise.
SamplerRead ==
    /\ Alive /\ spc = "read"
    /\ \/ /\ pipe # << >>
          /\ output' = Head(pipe)
          /\ pipe' = Tail(pipe)
          /\ spc' = "write"
       \/ /\ pipe = << >> /\ proc = Some("terminated")
          /\ output' = 0
          /\ pipe' = pipe
          /\ spc' = "check"
    /\ acc' = Touch(acc, "sampler", {<<"proc", "r">>})
    /\ UNCHANGED <<configVars, mainVars, loggerVars, handle, written, emitted, cameraVars>>

\* if output: log_file.write(output); log_file.flush()
\* A write through a handle whose file was removed does not reach the path.
SamplerWrite ==
    /\ Alive /\ spc = "write"
    /\ written' = Append(written, output)
    /\ temp_content' = IF handle = "linked" THEN Append(temp_content, output) ELSE temp_content
    /\ spc' = "check"
    /\ acc' = Touch(acc, "sampler", {<<"temp_file", "w">>})
    /\ UNCHANGED <<configVars, mainVars, running, proc, time_records, temp_exists,
                   gpu_log, time_log, reported, handle, output, pipe, emitted, cameraVars>>

\* log_file.close(); the thread ends.
SamplerClose_ResetsRunning ==
    /\ Alive /\ spc = "close"
    /\ handle' = "closed"
    /\ spc' = "exited"
    /\ running' = FALSE
    /\ acc' = Touch(acc, "sampler", {<<"running", "w">>})
    /\ UNCHANGED <<configVars, mainVars, proc, time_records, temp_exists, temp_content,
                   gpu_log, time_log, reported, output, written, pipe, emitted, cameraVars>>
SamplerClose ==
    /\ Alive /\ spc = "close"
    /\ handle' = "closed"
    /\ spc' = "exited"
    /\ UNCHANGED <<configVars, mainVars, loggerVars, output, written, pipe, emitted,
                   cameraVars, acc>>

\* The GPU monitor prints one sample line per period while it lives.
ProcEmit ==
    /\ proc = Some("running")
    /\ emitted < MaxLines
    /\ emitted' = emitted + 1
    /\ pipe' = Append(pipe, emitted + 1)
    /\ UNCHANGED <<configVars, mainVars, loggerVars, spc, handle, output, written,
                   cameraVars, acc>>

\* ------------------------------------------------------------- camera mode
\* sensor = SensorRealsense()
OpenCamera ==
    /\ pc = "ready" /\ mode = "cam"
    /\ pc' = "capture"
    /\ UNCHANGED <<configVars, image_files, idx, outputs, requests, infer_input, stdout,
                   loggerVars, samplerVars, cameraVars, acc>>

\* input = sensor.get_video_from_pipeline()[1][0]
Capture ==
    /\ pc = "capture" /\ frames < MaxFrames
    /\ \E s \in Scenes : frame' = Some([scene |-> s, drawn |-> {}])
    /\ frames' = frames + 1
    /\ pc' = "infer"
    /\ UNCHANGED <<configVars, image_files, idx, outputs, requests, infer_input, stdout,
                   loggerVars, samplerVars, result, shown, key, acc>>

\* output = infer_camera(client, model, input, input_shape, data_type)
InferCamera ==
    /\ pc = "infer"
    /\ LET tensor == AddBatchAxis(PreprocessShape(input_shape))
           inp == CameraInferInput(tensor, data_type, NumpyDType(data_type))
       IN /\ infer_input' = Some(inp)
          /\ IF SetDataAccepts(inp)
             THEN /\ requests' = requests + 1
                  /\ result' = Some(CameraResult(Get(frame), Detect(Get(frame).scene)))
                  /\ pc' = "render"
             ELSE /\ pc' = "crashed"
                  /\ UNCHANGED <<requests, result>>
    /\ UNCHANGED <<configVars, image_files, idx, outputs, stdout,
                   loggerVars, samplerVars, frame, shown, frames, key, acc>>

\* cv2.namedWindow(...); cv2.imshow("camera viewer", output)
Render ==
    /\ pc = "render"
    /\ shown' = result
    /\ pc' = "poll"
    /\ UNCHANGED <<configVars, image_files, idx, outputs, requests, infer_input, stdout,
                   loggerVars, samplerVars, frame, result, frames, key, acc>>

\* if cv2.waitKey(1) & 0xFF in [ord("q"), 27]: cv2.destroyAllWindows(); break
Poll ==
    /\ pc = "poll"
    /\ \E k \in KeyCodes :
          /\ key' = k
          /\ pc' = IF Cancels(k) THEN "done" ELSE "capture"
    /\ UNCHANGED <<configVars, image_files, idx, outputs, requests, infer_input, stdout,
                   loggerVars, samplerVars, frame, result, shown, frames, acc>>

\* -------------------------------------------------------------------- spec
Next ==
    \/ ServerCheck \/ ListImages \/ StartLogging \/ ProcessItem \/ Averages
    \/ StopSetFlag \/ StopTerminate \/ StopConvert \/ StopRemove \/ StopWriteTimeLog
    \/ SamplerPopen \/ SamplerOpen \/ SamplerCheck \/ SamplerRead \/ SamplerWrite
    \/ SamplerClose \/ ProcEmit
    \/ OpenCamera \/ Capture \/ InferCamera \/ Render \/ Poll

Spec == Init /\ [][Next]_vars

\* ------------------------------------------- the logger driven on its own
\* A caller that constructs a PerformanceLogger and calls start_logging(),
\* log(...) any number of times, and stop_logging().
LoggerInit ==
    /\ mode = "img" /\ input_shape \in Shapes /\ data_type \in DataTypes
    /\ live = TRUE /\ ready = TRUE /\ model_ready = TRUE
    /\ pc = "listed"
    /\ Fresh

\* logger.log(image_index, total_length, prep_time, infer_time, postp_time)
CallLog ==
    /\ pc = "loop" /\ Len(time_records) < MaxItems
    /\ \E t \in Timings :
          /\ time_records' = LogRecords(time_records, t)
          /\ stdout' = Append(stdout, LogLine(Len(stdout) + 1, MaxItems, t))
    /\ acc' = Touch(acc, "main", {<<"time_records", "w">>})
    /\ UNCHANGED <<configVars, pc, image_files, idx, outputs, requests, infer_input,
                   running, proc, temp_exists, temp_content, gpu_log, time_log, reported,
                   samplerVars, cameraVars>>

\* The caller goes on to logger.stop_logging().
CallStop ==
    /\ pc = "loop"
    /\ pc' = "stop_flag"
    /\ UNCHANGED <<configVars, image_files, idx, outputs, requests, infer_input, stdout,
                   loggerVars, samplerVars, cameraVars, acc>>

LoggerNext ==
    \/ StartLogging \/ CallLog \/ CallStop
    \/ StopSetFlag \/ StopTerminate \/ StopConvert \/ StopRemove \/ StopWriteTimeLog
    \/ SamplerPopen \/ SamplerOpen \/ SamplerCheck \/ SamplerRead \/ SamplerWrite
    \/ SamplerClose \/ ProcEmit

LoggerSpec == LoggerInit /\ [][LoggerNext]_vars

\* ------------------------------------------------------------------ claims
Writers(f) == {a[1] : a \in {x \in acc[f] : x[2] = "w"}}
Accessors(f) == {a[1] : a \in acc[f]}
Ended == pc \in {"done", "crashed"}

\* C1: when one of the three health queries answers false, main() returns
\* without doing any work: no inference request, no start_logging() (no sampler
\* thread, no subprocess), no output image, no log file.
C1_ServerCheckFatal ==
    ~(live /\ ready /\ model_ready) =>
        /\ pc \in {"start", "notready"}
        /\ requests = 0 /\ idx = 0 /\ outputs = << >>
        /\ ~running /\ spc = "idle" /\ proc = None
        /\ ~temp_exists /\ gpu_log = None /\ time_log = None
C1_Witness == pc = "notready" /\ live /\ ready /\ ~model_ready

\* C2: whenever the run has ended (normally or by an exception), a subprocess
\* the sampler launched has been terminated and its raw log converted.
C2_SubprocessReaped ==
    (mode = "img" /\ Ended /\ proc # None) =>
        (proc = Some("terminated") /\ gpu_log # None)

\* C3: after n calls of log(...) and a completed stop_logging(), the timing
\* CSV holds n + 1 rows: the header, then the n records in call order with the
\* values that were passed.
C3_TimeLogRows ==
    time_log # None =>
        LET rows == Get(time_log)
        IN /\ Len(rows) = Len(stdout) + 1
           /\ rows[1] = Header
           /\ \A i \in 1..Len(stdout) :
                 rows[i + 1] = <<stdout[i][3], stdout[i][4], stdout[i][5]>>
C3_Witness == pc = "done" /\ time_log # None /\ Len(stdout) = MaxItems
C3_WitnessEmpty == pc = "done" /\ time_log # None /\ Len(stdout) = 0

\* C4 as stated: apart from the timing record list no logger field is written
\* by one thread and read or written by the other; the record list is written
\* only by main and the temporary GPU log only by the sampler.
C4_NoSharedField ==
    /\ Writers("time_records") \subseteq {"main"}
    /\ Writers("temp_file") \subseteq {"sampler"}
    /\ \A f \in {"running", "proc", "thread"} :
          \A t \in Writers(f) : Accessors(f) \subseteq {t}
\* C4 as amended: every logger resource has one writing thread (running and
\* thread: main; proc and the temporary GPU log: the sampler), and the timing
\* record list and the thread field are touched by main alone.
C4_SingleWriter ==
    /\ \A f \in Resources : Cardinality(Writers(f)) <= 1
    /\ Writers("running") \subseteq {"main"}
    /\ Writers("proc") \subseteq {"sampler"}
    /\ Writers("temp_file") \subseteq {"sampler"}
    /\ Accessors("time_records") \subseteq {"main"}
    /\ Accessors("thread") \subseteq {"main"}
\* Both threads have used running and proc, and main has read and deleted the
\* file the sampler wrote.
C4_Witness ==
    /\ pc = "done" /\ spc = "exited"
    /\ acc["running"] = {<<"main", "w">>, <<"sampler", "r">>}
    /\ acc["proc"] = {<<"sampler", "w">>, <<"sampler", "r">>, <<"main", "r">>}
    /\ acc["temp_file"] = {<<"sampler", "w">>, <<"main", "r">>, <<"main", "d">>}
    /\ Len(time_records) > 0

\* C5: in batch mode the items are processed in list order, each once; the
\* number of timing records, of output images and of inference requests equals
\* the number of completed items; no item at or before the current position
\* failed, so nothing is processed or recorded after (or for) a failed item.
C5_OneRecordPerItem ==
    mode = "img" =>
        /\ idx <= Len(image_files)
        /\ Len(time_records) = idx /\ Len(outputs) = idx
        /\ Len(stdout) = idx /\ requests = idx
        /\ \A i \in 1..idx :
              /\ image_files[i].readable
              /\ outputs[i][1] = image_files[i].name
              /\ stdout[i][1] = i
C5_Witness ==
    /\ pc = "crashed" /\ Len(image_files) = 2 /\ idx = 1
    /\ ~image_files[2].readable
    /\ Len(time_records) = 1

\* C6: an empty NMS result is a value: the image written (batch) or returned
\* and shown (camera) equals the input image, and in batch mode the item has
\* its output file and its timing record.
C6_EmptyResultPassthrough ==
    /\ \A i \in 1..idx :
          Detect(image_files[i].scene) = None =>
             /\ i <= Len(outputs) /\ i <= Len(time_records)
             /\ outputs[i] = <<image_files[i].name,
                               [scene |-> image_files[i].scene, drawn |-> {}]>>
    /\ (mode = "cam" /\ pc \in {"render", "poll"} /\ Detect(Get(frame).scene) = None) =>
          /\ result = frame
          /\ pc = "poll" => shown = frame
C6_Witness ==
    /\ pc = "done" /\ idx = 2
    /\ Detect(image_files[1].scene) = None
    /\ Detect(image_files[2].scene) # None
C6_WitnessCamera ==
    mode = "cam" /\ pc = "poll" /\ Detect(Get(frame).scene) = None

\* C7: in camera mode the frame loop is left only when a poll observed the
\* cancellation key, and no sampler thread or subprocess is ever started.
C7_ExitOnlyOnCancel ==
    (mode = "cam" /\ Ended) =>
        (pc = "done" /\ Cancels(key) /\ spc = "idle" /\ proc = None)

C9_DeclaredShapeIsTensorShape ==
    infer_input # None =>
        Get(infer_input).shape = Get(infer_input).tensor_shape

\* C10: once stop_logging() has returned and the sampler has exited, the
\* temporary file is gone and the GPU CSV holds every line the sampler wrote.
C10_QuiescentSampler ==
    (mode = "img" /\ pc = "done" /\ spc = "exited") =>
        (~temp_exists /\ gpu_log = Some(ConvertLog(written)))

=============================================================================
